---- MODULE Spec2Model ----
(***************************************************************************)
(* Model of src/driver.rs: the KeyboardPins / Pin port abstraction of the  *)
(* AT2XT firmware over the MSP430 PORT_1_2 register block.                 *)
(*                                                                         *)
(* Every register access of the driver is one step of a "program": a      *)
(* sequence of records [reg, kind, arg] with kind "set" (modify with      *)
(* set_bits_with_mask!), "clear" (modify with clear_bits_with_mask!) or   *)
(* "write" (full-register write).  Spec runs one operation of the driver  *)
(* from an arbitrary seeded register block, one register access per step. *)
(***************************************************************************)
EXTENDS Integers, Sequences, FiniteSets

\* ------------------------------------------------------------------ bounds
\* Number of seed patterns each register is initially drawn from.
NumSeeds == 4

\* Seed patterns for the initial register values.
SeedTable == <<165, 90, 255, 0, 51, 204>>

SeedVals == {SeedTable[i] : i \in 1..NumSeeds}

\* --------------------------------------------------------- 8-bit arithmetic
\* u8 registers of PORT_1_2.
RegWidth == 8

Byte == 2^RegWidth

BitPos == 0..(RegWidth - 1)

\* Bit i of the byte v.
Bit(v, i) == (v \div (2^i)) % 2

RECURSIVE SumBits(_, _)
\* The byte whose bit i is f[i], for i < n.
SumBits(f, n) == IF n = 0 THEN 0 ELSE f[n - 1] * (2^(n - 1)) + SumBits(f, n - 1)

\* a | b on u8.
BitOr(a, b) == SumBits([i \in BitPos |-> IF Bit(a, i) = 1 \/ Bit(b, i) = 1 THEN 1 ELSE 0], RegWidth)

\* a & b on u8.
BitAnd(a, b) == SumBits([i \in BitPos |-> IF Bit(a, i) = 1 /\ Bit(b, i) = 1 THEN 1 ELSE 0], RegWidth)

\* !a on u8.
BitNot(a) == (Byte - 1) - a

\* ------------------------------------------------------------ the macros
\* Mutant: the mask is written without the bits read.
set_bits_with_mask_mut(r, m) == m

\* $w.bits($r.bits() | $m)
set_bits_with_mask(r, m) == BitOr(r, m)

\* Mutant: the mask is not complemented.
clear_bits_with_mask_mut(r, m) == BitAnd(r, m)

\* $w.bits($r.bits() & !$m)
clear_bits_with_mask(r, m) == BitAnd(r, BitNot(m))

\* ------------------------------------------------------------------- Pin
\* Mutant: the location is used as the mask, without the shift.
bitmask_mut(loc) == loc + 1

\* Pin::bitmask evaluates 1 << self.loc on u8; for a location of 8 or more
\* the shift overflows: a build with overflow checks panics there.
ShiftOverflows(loc) == loc >= RegWidth

\* Pin::bitmask: (1 << self.loc) as u8.  It is never 0: where the shift
\* overflows and the build does not panic, the shift amount is masked to
\* the width of u8 (8 -> 1, 9 -> 2, 15 -> 128).
bitmask(loc) == 2^(loc % RegWidth)

\* KeyboardPins::new: the five pins and their locations.
KeyboardPins_new == [at_clk |-> 0, at_data |-> 4, xt_clk |-> 2, xt_data |-> 3, xt_sense |-> 1]

at_clk == KeyboardPins_new.at_clk

at_data == KeyboardPins_new.at_data

xt_clk == KeyboardPins_new.xt_clk

xt_data == KeyboardPins_new.xt_data

xt_sense == KeyboardPins_new.xt_sense

\* The registers of PORT_1_2 the driver touches.
RegNames == {"p1in", "p1out", "p1dir", "p1ifg", "p1ies", "p1ie"}

\* One register access.
Acc(reg, kind, arg) == [reg |-> reg, kind |-> kind, arg |-> arg]

\* The value an access stores, given the value r it read.
NewValue(a, r) ==
  CASE a.kind = "set" -> set_bits_with_mask(r, a.arg)
    [] a.kind = "clear" -> clear_bits_with_mask(r, a.arg)
    [] a.kind = "write" -> a.arg

\* The register block after the access a.
Access(a, p) == [p EXCEPT ![a.reg] = NewValue(a, p[a.reg])]

RECURSIVE Run(_, _)
\* The register block after all accesses of prog, in order.
Run(prog, p) == IF prog = <<>> THEN p ELSE Run(Tail(prog), Access(Head(prog), p))

\* Pin::set
Pin_set(loc) == <<Acc("p1out", "set", bitmask(loc))>>

\* Pin::unset
Pin_unset(loc) == <<Acc("p1out", "clear", bitmask(loc))>>

\* Pin::mk_in
Pin_mk_in(loc) == <<Acc("p1dir", "clear", bitmask(loc))>>

\* Pin::mk_out
Pin_mk_out(loc) == <<Acc("p1dir", "set", bitmask(loc))>>

\* Mutant: the output register is read, not the input register.
Pin_is_set_mut(loc, p) == BitAnd(p.p1out, bitmask(loc)) # 0

\* Pin::is_set
Pin_is_set(loc, p) == BitAnd(p.p1in, bitmask(loc)) # 0

\* Mutant: the test is the one of is_set.
Pin_is_unset_mut(loc, p) == BitAnd(p.p1in, bitmask(loc)) # 0

\* Pin::is_unset
Pin_is_unset(loc, p) == BitAnd(p.p1in, bitmask(loc)) = 0

\* ----------------------------------------------------------- KeyboardPins
\* Mutant: the interrupt is enabled before the pending flag is cleared.
idle_mut_order ==
  << Acc("p1dir", "write", 0),
     Acc("p1ie", "set", bitmask(at_clk)),
     Acc("p1ifg", "clear", bitmask(at_clk)),
     Acc("p1ies", "set", bitmask(at_clk)) >>

\* Mutant: only the five pins of the driver are made inputs.
idle_mut_masked ==
  << Acc("p1dir", "clear", 31),
     Acc("p1ifg", "clear", bitmask(at_clk)),
     Acc("p1ies", "set", bitmask(at_clk)),
     Acc("p1ie", "set", bitmask(at_clk)) >>

\* Mutant: the interrupt enable register is written, not modified.
idle_mut_write ==
  << Acc("p1dir", "write", 0),
     Acc("p1ifg", "clear", bitmask(at_clk)),
     Acc("p1ies", "set", bitmask(at_clk)),
     Acc("p1ie", "write", bitmask(at_clk)) >>

\* KeyboardPins::idle
idle ==
  << Acc("p1dir", "write", 0),
     Acc("p1ifg", "clear", bitmask(at_clk)),
     Acc("p1ies", "set", bitmask(at_clk)),
     Acc("p1ie", "set", bitmask(at_clk)) >>

\* Mutant: the enable bit of the data pin is cleared, not that of the clock.
disable_at_clk_int_mut == <<Acc("p1ie", "clear", bitmask(at_data))>>

\* KeyboardPins::disable_at_clk_int
disable_at_clk_int == <<Acc("p1ie", "clear", bitmask(at_clk))>>

\* Mutant: the interrupt enable register is written, not modified.
enable_at_clk_int_mut == <<Acc("p1ie", "write", bitmask(at_clk))>>

\* KeyboardPins::enable_at_clk_int
enable_at_clk_int == <<Acc("p1ie", "set", bitmask(at_clk))>>

\* Mutant: the flag of the data pin is cleared, not that of the clock.
clear_at_clk_int_mut_pin == <<Acc("p1ifg", "clear", bitmask(at_data))>>

\* Mutant: every flag of the port is cleared.
clear_at_clk_int_mut == <<Acc("p1ifg", "write", 0)>>

\* KeyboardPins::clear_at_clk_int
clear_at_clk_int == <<Acc("p1ifg", "clear", bitmask(at_clk))>>

\* at_mask in at_idle / at_inhibit
at_mask == BitOr(bitmask(at_clk), bitmask(at_data))

\* xt_mask in xt_out / xt_in
xt_mask == BitOr(bitmask(xt_clk), bitmask(xt_data))

\* Mutant: the two lines are made outputs.
at_idle_mut == Pin_set(at_clk) \o Pin_set(at_data) \o <<Acc("p1dir", "set", at_mask)>>

\* KeyboardPins::at_idle
at_idle == Pin_set(at_clk) \o Pin_set(at_data) \o <<Acc("p1dir", "clear", at_mask)>>

\* KeyboardPins::at_inhibit
at_inhibit == Pin_unset(at_clk) \o Pin_set(at_data) \o <<Acc("p1dir", "set", at_mask)>>

\* Mutant: the directions are changed before the output bits.
at_send_mut == Pin_mk_in(at_clk) \o Pin_mk_out(at_data) \o Pin_set(at_clk) \o Pin_set(at_data)

\* KeyboardPins::at_send
at_send == Pin_set(at_clk) \o Pin_set(at_data) \o Pin_mk_in(at_clk) \o Pin_mk_out(at_data)

\* Mutant: the direction is changed before the output bits.
xt_out_mut == <<Acc("p1dir", "set", xt_mask), Acc("p1out", "set", xt_mask)>>

\* KeyboardPins::xt_out
xt_out == <<Acc("p1out", "set", xt_mask), Acc("p1dir", "set", xt_mask)>>

\* Mutant: the direction of every pin of the driver is cleared.
xt_in_mut_dir == <<Acc("p1out", "set", bitmask(xt_data)), Acc("p1dir", "clear", 31)>>

\* Mutant: the clock output bit is set as well, as in xt_out.
xt_in_mut == <<Acc("p1out", "set", xt_mask), Acc("p1dir", "clear", xt_mask)>>

\* KeyboardPins::xt_in
xt_in == <<Acc("p1out", "set", bitmask(xt_data)), Acc("p1dir", "clear", xt_mask)>>

\* ------------------------------------------------------------------ state
VARIABLES
  regs,   \* the PORT_1_2 register block
  pre,    \* the register block when the running operation was called
  op,     \* the operation called ("none" before the call)
  loc,    \* the location of the Pin a Pin primitive was called on
  pc,     \* number of register accesses the operation has performed
  log,    \* the register accesses performed, in order
  tmp,    \* the value the foreground read in a modify it has not written yet (-1: none)
  isr,    \* the interrupt handler: whether it runs, its accesses, how many are done
  serial, \* the register block had every update so far been applied atomically
  masked, \* the foreground has disabled the bus-A clock interrupt and not re-armed it
  ret,    \* what is_set / is_unset returned: 1 true, 0 false (-1: nothing returned)
  edge,   \* a falling edge was flagged since the handler last acknowledged
  hist    \* the calls so far: "none", "idle" (idle was the last to return),
          \* "bus_a" (idle, then at_idle, then only at_idle / at_inhibit /
          \* at_send), "other" (idle has returned, any other sequence)

vars == <<regs, pre, op, loc, pc, log, tmp, isr, serial, masked, ret, edge, hist>>

\* The handler is not running.
IsrOff == [active |-> FALSE, prog |-> <<>>, pc |-> 0]

Init ==
  /\ regs \in [RegNames -> SeedVals]
  /\ pre = regs
  /\ op = "none"
  /\ loc = 0
  /\ pc = 0
  /\ log = <<>>
  /\ tmp = -1
  /\ isr = IsrOff
  /\ serial = regs
  /\ masked = TRUE
  /\ ret = -1
  /\ edge = FALSE
  /\ hist = "none"

\* The caller invokes the operation name on the pin location l.
Call(name, l) ==
  /\ op = "none"
  /\ op' = name
  /\ loc' = l
  /\ pre' = regs
  /\ pc' = 0
  /\ UNCHANGED <<regs, log, tmp, isr, serial, masked, ret, edge, hist>>

\* The running operation name, whose accesses are prog, performs its next one.
Step(name, prog) ==
  /\ op = name
  /\ pc < Len(prog)
  /\ regs' = Access(prog[pc + 1], regs)
  /\ log' = Append(log, prog[pc + 1])
  /\ pc' = pc + 1
  /\ serial' = Access(prog[pc + 1], serial)
  /\ UNCHANGED <<pre, op, loc, tmp, isr, masked, ret, edge, hist>>

\* The operation name has been called and has returned.
Returned(name, prog) == op = name /\ pc = Len(prog)

\* A bool as returned to the caller.
RetVal(b) == IF b THEN 1 ELSE 0

\* The running operation name, after the accesses of prog, reads the pin
\* and returns val.
Read(name, prog, val) ==
  /\ op = name
  /\ pc = Len(prog)
  /\ ret = -1
  /\ ret' = RetVal(val)
  /\ UNCHANGED <<regs, pre, op, loc, pc, log, tmp, isr, serial, masked, edge, hist>>

\* The locations of the five pins of KeyboardPins.
PinLocs == {KeyboardPins_new[f] : f \in DOMAIN KeyboardPins_new}

\* A caller makes the pin an output, sets it and reads it back.
mk_out_set == Pin_mk_out(loc) \o Pin_set(loc)

\* A caller makes the pin an output, unsets it and reads it back.
mk_out_unset == Pin_mk_out(loc) \o Pin_unset(loc)

set_op == (\E l \in BitPos : Call("set", l)) \/ Step("set", Pin_set(loc))

unset_op == (\E l \in BitPos : Call("unset", l)) \/ Step("unset", Pin_unset(loc))

mk_in_op == (\E l \in BitPos : Call("mk_in", l)) \/ Step("mk_in", Pin_mk_in(loc))

mk_out_op == (\E l \in BitPos : Call("mk_out", l)) \/ Step("mk_out", Pin_mk_out(loc))

is_set_op == (\E l \in BitPos : Call("is_set", l)) \/ Read("is_set", <<>>, Pin_is_set(loc, regs))

is_unset_op == (\E l \in BitPos : Call("is_unset", l)) \/ Read("is_unset", <<>>, Pin_is_unset(loc, regs))

set_is_set_op ==
  \/ \E l \in PinLocs : Call("set_is_set", l)
  \/ Step("set_is_set", mk_out_set)
  \/ Read("set_is_set", mk_out_set, Pin_is_set(loc, regs))

unset_is_unset_op ==
  \/ \E l \in PinLocs : Call("unset_is_unset", l)
  \/ Step("unset_is_unset", mk_out_unset)
  \/ Read("unset_is_unset", mk_out_unset, Pin_is_unset(loc, regs))

idle_op == Call("idle", 0) \/ Step("idle", idle)

disable_at_clk_int_op == Call("disable_at_clk_int", 0) \/ Step("disable_at_clk_int", disable_at_clk_int)

enable_at_clk_int_op == Call("enable_at_clk_int", 0) \/ Step("enable_at_clk_int", enable_at_clk_int)

clear_at_clk_int_op == Call("clear_at_clk_int", 0) \/ Step("clear_at_clk_int", clear_at_clk_int)

at_idle_op == Call("at_idle", 0) \/ Step("at_idle", at_idle)

at_inhibit_op == Call("at_inhibit", 0) \/ Step("at_inhibit", at_inhibit)

at_send_op == Call("at_send", 0) \/ Step("at_send", at_send)

xt_out_op == Call("xt_out", 0) \/ Step("xt_out", xt_out)

xt_in_op == Call("xt_in", 0) \/ Step("xt_in", xt_in)

Next ==
  \/ set_op
  \/ unset_op
  \/ mk_in_op
  \/ mk_out_op
  \/ is_set_op
  \/ is_unset_op
  \/ set_is_set_op
  \/ unset_is_unset_op
  \/ idle_op
  \/ disable_at_clk_int_op
  \/ enable_at_clk_int_op
  \/ clear_at_clk_int_op
  \/ at_idle_op
  \/ at_inhibit_op
  \/ at_send_op
  \/ xt_out_op
  \/ xt_in_op

Spec == Init /\ [][Next]_vars

\* ------------------------------------------- foreground and interrupt handler
\* A modify is a read of the register followed by a write of the new value;
\* the PORT1 interrupt handler can run between any two foreground steps.

\* The register block at power-up clear: all pins inputs, no port interrupt
\* enabled or pending; p1out and p1ies are not reset.
InitIrq ==
  /\ regs \in [RegNames -> SeedVals]
  /\ regs.p1dir = 0 /\ regs.p1ie = 0 /\ regs.p1ifg = 0 /\ regs.p1in = SeedTable[1]
  /\ pre = regs
  /\ op = "none"
  /\ loc = 0
  /\ pc = 0
  /\ log = <<>>
  /\ tmp = -1
  /\ isr = IsrOff
  /\ serial = regs
  /\ masked = TRUE
  /\ ret = -1
  /\ edge = FALSE
  /\ hist = "none"

\* What the handler does: it may inhibit bus A, and it acknowledges the
\* interrupt before it returns.
HandlerProgs == {clear_at_clk_int, at_inhibit \o clear_at_clk_int}

\* The registers the handler updates.
HandlerRegs == {a.reg : a \in UNION {{prog[i] : i \in 1..Len(prog)} : prog \in HandlerProgs}}

\* The operation whose accesses are prog updates a register of the handler.
Shared(prog) == \E i \in 1..Len(prog) : prog[i].reg \in HandlerRegs

\* The bus-A clock interrupt is enabled and its flag is set.
Pending == Bit(regs.p1ie, at_clk) = 1 /\ Bit(regs.p1ifg, at_clk) = 1

\* The foreground calls the operation name; guard is the rule it follows
\* for calling an operation that updates a register of the handler.
FgCall(name, prog, guard) ==
  /\ ~isr.active
  /\ op = "none"
  /\ Shared(prog) => guard
  /\ op' = name
  /\ pre' = regs
  /\ pc' = 0
  /\ log' = <<>>
  /\ masked' = IF name \in {"idle", "enable_at_clk_int"} THEN FALSE ELSE masked
  /\ UNCHANGED <<regs, loc, tmp, isr, serial, ret, edge, hist>>

\* The foreground reads the register of its next access, a modify.
FgRead(name, prog) ==
  /\ ~isr.active
  /\ op = name /\ pc < Len(prog) /\ tmp = -1
  /\ prog[pc + 1].kind # "write"
  /\ tmp' = regs[prog[pc + 1].reg]
  /\ UNCHANGED <<regs, pre, op, loc, pc, log, isr, serial, masked, ret, edge, hist>>

\* The foreground writes the register of its next access: the value of a
\* write, or what a modify computes from the value it read.
FgWrite(name, prog) ==
  /\ ~isr.active
  /\ op = name /\ pc < Len(prog)
  /\ LET a == prog[pc + 1] IN
       /\ a.kind # "write" => tmp # -1
       /\ regs' = [regs EXCEPT ![a.reg] = NewValue(a, tmp)]
       /\ serial' = Access(a, serial)
       /\ log' = Append(log, a)
  /\ tmp' = -1
  /\ pc' = pc + 1
  /\ UNCHANGED <<pre, op, loc, isr, masked, ret, edge, hist>>

\* The operation returns to the foreground.
FgReturn(name, prog) ==
  /\ ~isr.active
  /\ op = name /\ pc = Len(prog)
  /\ op' = "none"
  /\ pc' = 0
  /\ masked' = IF name = "disable_at_clk_int" THEN TRUE ELSE masked
  /\ UNCHANGED <<regs, pre, loc, log, tmp, isr, serial, ret, edge, hist>>

\* The foreground runs the operation name under the rule guard.
Fg(name, prog, guard) ==
  \/ FgCall(name, prog, guard)
  \/ FgRead(name, prog)
  \/ FgWrite(name, prog)
  \/ FgReturn(name, prog)

\* A falling edge of the bus-A clock sets its interrupt flag.
ClockEdge ==
  /\ Bit(regs.p1ifg, at_clk) = 0
  /\ regs' = [regs EXCEPT !.p1ifg = BitOr(@, bitmask(at_clk))]
  /\ serial' = [serial EXCEPT !.p1ifg = BitOr(@, bitmask(at_clk))]
  /\ edge' = TRUE
  /\ UNCHANGED <<pre, op, loc, pc, log, tmp, isr, masked, ret, hist>>

\* The pending interrupt preempts the foreground and runs one of progs.
IsrEnterFrom(progs) ==
  /\ ~isr.active
  /\ Pending
  /\ \E prog \in progs : isr' = [active |-> TRUE, prog |-> prog, pc |-> 0]
  /\ UNCHANGED <<regs, pre, op, loc, pc, log, tmp, serial, masked, ret, edge, hist>>

\* The pending interrupt preempts the foreground; the handler acknowledges.
IsrEnter == IsrEnterFrom(HandlerProgs)

\* The handler whose accesses are prog ends with a call of clear_at_clk_int.
Acks(prog) ==
  /\ Len(prog) >= Len(clear_at_clk_int)
  /\ SubSeq(prog, Len(prog) - Len(clear_at_clk_int) + 1, Len(prog)) = clear_at_clk_int

\* The handler performs its next access; nothing preempts it.
IsrStep ==
  /\ isr.active
  /\ isr.pc < Len(isr.prog)
  /\ regs' = Access(isr.prog[isr.pc + 1], regs)
  /\ serial' = Access(isr.prog[isr.pc + 1], serial)
  /\ isr' = [isr EXCEPT !.pc = @ + 1]
  /\ edge' = IF Acks(isr.prog) /\ isr.pc + 1 = Len(isr.prog) THEN FALSE ELSE edge
  /\ UNCHANGED <<pre, op, loc, pc, log, tmp, masked, ret, hist>>

\* The handler returns to the foreground.
IsrReturn ==
  /\ isr.active
  /\ isr.pc = Len(isr.prog)
  /\ isr' = IsrOff
  /\ UNCHANGED <<regs, pre, op, loc, pc, log, tmp, serial, masked, ret, edge, hist>>

\* The foreground keeps the rule: it calls an operation that updates a
\* register of the handler only while it holds the interrupt disabled.
NextIrq ==
  \/ Fg("idle", idle, masked)
  \/ Fg("disable_at_clk_int", disable_at_clk_int, masked)
  \/ Fg("enable_at_clk_int", enable_at_clk_int, masked)
  \/ Fg("clear_at_clk_int", clear_at_clk_int, masked)
  \/ Fg("at_idle", at_idle, masked)
  \/ Fg("at_inhibit", at_inhibit, masked)
  \/ Fg("at_send", at_send, masked)
  \/ Fg("xt_out", xt_out, masked)
  \/ Fg("xt_in", xt_in, masked)
  \/ ClockEdge
  \/ IsrEnter
  \/ IsrStep
  \/ IsrReturn

SpecIrq == InitIrq /\ [][NextIrq]_vars

\* ------------------------------------------------ acknowledging the interrupt
\* Handlers that return without acknowledging, next to those that do.
AckHandlerProgs == HandlerProgs \cup {<<>>, at_inhibit}

\* The processor takes a pending interrupt before the next foreground
\* instruction: the foreground runs only while none is pending.  The
\* foreground arms, disables and re-enables the interrupt.
NextAck ==
  \/ ~Pending /\ Fg("idle", idle, TRUE)
  \/ ~Pending /\ Fg("disable_at_clk_int", disable_at_clk_int, TRUE)
  \/ ~Pending /\ Fg("enable_at_clk_int", enable_at_clk_int, TRUE)
  \/ ClockEdge
  \/ IsrEnterFrom(AckHandlerProgs)
  \/ IsrStep
  \/ IsrReturn

SpecAck == InitIrq /\ [][NextAck]_vars

\* ------------------------------------------------- the rule is not followed
\* The foreground calls every operation whether or not it holds the
\* interrupt disabled.
NextLost ==
  \/ Fg("idle", idle, TRUE)
  \/ Fg("disable_at_clk_int", disable_at_clk_int, TRUE)
  \/ Fg("enable_at_clk_int", enable_at_clk_int, TRUE)
  \/ Fg("clear_at_clk_int", clear_at_clk_int, TRUE)
  \/ Fg("at_idle", at_idle, TRUE)
  \/ Fg("at_inhibit", at_inhibit, TRUE)
  \/ Fg("at_send", at_send, TRUE)
  \/ Fg("xt_out", xt_out, TRUE)
  \/ Fg("xt_in", xt_in, TRUE)
  \/ ClockEdge
  \/ IsrEnter
  \/ IsrStep
  \/ IsrReturn

SpecLost == InitIrq /\ [][NextLost]_vars

\* ------------------------------------------------- sequences of operations
\* The register block before the first call: p1dir and p1out hold any seed.
InitSeq ==
  /\ regs \in [RegNames -> SeedVals]
  /\ regs.p1in = SeedTable[1] /\ regs.p1ifg = SeedTable[1]
  /\ regs.p1ies = SeedTable[1] /\ regs.p1ie = SeedTable[1]
  /\ pre = regs
  /\ op = "none"
  /\ loc = 0
  /\ pc = 0
  /\ log = <<>>
  /\ tmp = -1
  /\ isr = IsrOff
  /\ serial = regs
  /\ masked = TRUE
  /\ ret = -1
  /\ edge = FALSE
  /\ hist = "none"

\* The operations that drive bus A.
BusAOps == {"at_idle", "at_inhibit", "at_send"}

\* The caller invokes the operation name; the first call is idle.
SeqCall(name) ==
  /\ op = "none"
  /\ hist = "none" => name = "idle"
  /\ op' = name
  /\ pre' = regs
  /\ pc' = 0
  /\ log' = <<>>
  /\ UNCHANGED <<regs, loc, tmp, isr, serial, masked, ret, edge, hist>>

\* The operation name returns; the caller may call the next one.
SeqReturn(name, prog) ==
  /\ op = name
  /\ pc = Len(prog)
  /\ op' = "none"
  /\ pc' = 0
  /\ hist' = CASE name = "idle" -> "idle"
               [] name = "at_idle" /\ hist \in {"idle", "bus_a"} -> "bus_a"
               [] name \in BusAOps /\ hist = "bus_a" -> "bus_a"
               [] OTHER -> "other"
  /\ UNCHANGED <<regs, pre, loc, log, tmp, isr, serial, masked, ret, edge>>

\* The caller runs the operation name, one register access per step.
SeqOp(name, prog) == SeqCall(name) \/ Step(name, prog) \/ SeqReturn(name, prog)

NextSeq ==
  \/ SeqOp("idle", idle)
  \/ SeqOp("disable_at_clk_int", disable_at_clk_int)
  \/ SeqOp("enable_at_clk_int", enable_at_clk_int)
  \/ SeqOp("clear_at_clk_int", clear_at_clk_int)
  \/ SeqOp("at_idle", at_idle)
  \/ SeqOp("at_inhibit", at_inhibit)
  \/ SeqOp("at_send", at_send)
  \/ SeqOp("xt_out", xt_out)
  \/ SeqOp("xt_in", xt_in)

SpecSeq == InitSeq /\ [][NextSeq]_vars

\* ----------------------------------------------------------------- claims
\* The registers a and b agree on every bit whose position is not in S.
SameOutside(a, b, S) == \A i \in BitPos \ S : Bit(a, i) = Bit(b, i)

\* Every register except those in R has the value it had at the call.
OthersUnchanged(R) == \A r \in RegNames \ R : regs[r] = pre[r]

\* C1 (as claimed): after at_inhibit the bus-A clock is output=0 and
\* direction=output, and the bus-A data is output=1 and direction=input.
C1_InhibitDataInput ==
  Returned("at_inhibit", at_inhibit) =>
    /\ Bit(regs.p1out, at_clk) = 0
    /\ Bit(regs.p1dir, at_clk) = 1
    /\ Bit(regs.p1out, at_data) = 1
    /\ Bit(regs.p1dir, at_data) = 0

\* The register a Pin primitive targets.
PrimTarget == [set |-> "p1out", unset |-> "p1out", mk_in |-> "p1dir", mk_out |-> "p1dir"]

\* C2: set, unset, mk_in and mk_out on the pin at loc change at most bit loc
\* of their target register (p1out for set/unset, p1dir for mk_in/mk_out)
\* and leave the five other registers unchanged.
C2_PrimitiveFrame ==
  op \in DOMAIN PrimTarget =>
    /\ SameOutside(regs[PrimTarget[op]], pre[PrimTarget[op]], {loc})
    /\ OthersUnchanged({PrimTarget[op]})

\* C2 witness: a primitive on pin 5 has returned, it changed bit 5, and the
\* target register holds other bits that are set.
C2_Witness ==
  /\ op = "unset" /\ pc = 1 /\ loc = 5
  /\ pre.p1out = 255 /\ regs.p1out = 223

\* C4: after at_idle, bits 0 and 4 are 0 in p1dir and 1 in p1out.
C4_AtIdleState ==
  Returned("at_idle", at_idle) =>
    /\ Bit(regs.p1dir, at_clk) = 0 /\ Bit(regs.p1dir, at_data) = 0
    /\ Bit(regs.p1out, at_clk) = 1 /\ Bit(regs.p1out, at_data) = 1

\* C4 witness: at_idle has returned from a block where both lines were
\* outputs driven low.
C4_Witness ==
  /\ Returned("at_idle", at_idle)
  /\ pre.p1dir = 255 /\ pre.p1out = 0

\* C5: after at_send, bits 0 and 4 of p1out are 1, bit 0 of p1dir is 0 and
\* bit 4 of p1dir is 1, and the accesses were, in order: clock output high,
\* data output high, clock made input, data made output.
C5_AtSendState ==
  Returned("at_send", at_send) =>
    /\ Bit(regs.p1out, 0) = 1 /\ Bit(regs.p1out, 4) = 1
    /\ Bit(regs.p1dir, 0) = 0 /\ Bit(regs.p1dir, 4) = 1
    /\ log = << Acc("p1out", "set", 1), Acc("p1out", "set", 16),
                Acc("p1dir", "clear", 1), Acc("p1dir", "set", 16) >>

\* C5 witness: at_send has returned from a block where the clock was an
\* output, the data an input, and both output bits were 0.
C5_Witness ==
  /\ Returned("at_send", at_send)
  /\ pre.p1dir = 165 /\ pre.p1out = 0

\* C6: after xt_in, bits 2 and 3 of p1dir are 0, bit 3 of p1out is 1 and
\* bit 2 of p1out has the value it had at the call.
C6_XtInState ==
  Returned("xt_in", xt_in) =>
    /\ Bit(regs.p1dir, 2) = 0 /\ Bit(regs.p1dir, 3) = 0
    /\ Bit(regs.p1out, 3) = 1
    /\ Bit(regs.p1out, 2) = Bit(pre.p1out, 2)

\* C6 witness: xt_in has returned from a block where both bus-B lines were
\* outputs and both output bits were 0.
C6_Witness ==
  /\ Returned("xt_in", xt_in)
  /\ pre.p1dir = 255 /\ pre.p1out = 0 /\ Bit(regs.p1out, 2) = 0

\* C7: after xt_out, bits 2 and 3 are 1 in p1out and in p1dir, and p1out
\* was written before p1dir.
C7_XtOutState ==
  Returned("xt_out", xt_out) =>
    /\ Bit(regs.p1out, 2) = 1 /\ Bit(regs.p1out, 3) = 1
    /\ Bit(regs.p1dir, 2) = 1 /\ Bit(regs.p1dir, 3) = 1
    /\ Len(log) = 2 /\ log[1].reg = "p1out" /\ log[2].reg = "p1dir"

\* C7 witness: xt_out has returned from a block where both bus-B lines were
\* inputs and both output bits were 0.
C7_Witness ==
  /\ Returned("xt_out", xt_out)
  /\ pre.p1dir = 0 /\ pre.p1out = 0

\* C8: once idle has performed its first access, and so after it returns,
\* the whole of p1dir is 0x00, whatever it held at the call; the access is
\* a write of the register, not a modify.
C8_IdleDirZero ==
  (op = "idle" /\ pc >= 1) => (regs.p1dir = 0 /\ log[1].kind = "write")

\* C8 witness: idle has returned from a block where every bit of p1dir,
\* also those of no pin of the driver, was set.
C8_Witness ==
  /\ Returned("idle", idle)
  /\ pre.p1dir = 255

\* C9: after idle, bit 0 is 0 in p1ifg, 1 in p1ies and 1 in p1ie; bits 1..7
\* of these three registers and the whole of p1out are as at the call.
C9_IdleInterruptState ==
  Returned("idle", idle) =>
    /\ Bit(regs.p1ifg, 0) = 0 /\ Bit(regs.p1ies, 0) = 1 /\ Bit(regs.p1ie, 0) = 1
    /\ SameOutside(regs.p1ifg, pre.p1ifg, {0})
    /\ SameOutside(regs.p1ies, pre.p1ies, {0})
    /\ SameOutside(regs.p1ie, pre.p1ie, {0})
    /\ regs.p1out = pre.p1out

\* C9 witness: idle has returned from a block with the flag pending, rising
\* edge selected, the interrupt disabled, and other bits of p1ie set.
C9_Witness ==
  /\ Returned("idle", idle)
  /\ pre.p1ifg = 255 /\ pre.p1ies = 90 /\ pre.p1ie = 90

\* C10: after clear_at_clk_int, bit 0 of p1ifg is 0, bits 1..7 of p1ifg and
\* the five other registers are as at the call.
C10_AcknowledgeFrame ==
  Returned("clear_at_clk_int", clear_at_clk_int) =>
    /\ Bit(regs.p1ifg, 0) = 0
    /\ SameOutside(regs.p1ifg, pre.p1ifg, {0})
    /\ OthersUnchanged({"p1ifg"})

\* C10 witness: clear_at_clk_int has returned from a block where the flag
\* of the clock and flags of other pins were set.
C10_Witness ==
  /\ Returned("clear_at_clk_int", clear_at_clk_int)
  /\ pre.p1ifg = 165 /\ regs.p1ifg = 164

\* C3: when every foreground modify of a register the handler also updates
\* is executed with the bus-A clock interrupt disabled (before idle first
\* arms it, or after disable_at_clk_int), no update is lost in any
\* interleaving: every register holds the value that results from applying
\* the foreground's and the handler's updates one after the other.
C3_NoLostUpdate == regs = serial

\* C3 witness: the handler has run at_inhibit and its acknowledge, and the
\* foreground, holding the interrupt disabled while an edge is flagged, is
\* between the read and the write of a modify of p1out.
C3_Witness ==
  /\ masked /\ op = "at_idle" /\ tmp # -1
  /\ Bit(regs.p1ifg, at_clk) = 1
  /\ Bit(regs.p1dir, at_data) = 1

\* C11: after enable_at_clk_int bit 0 of p1ie is 1, after
\* disable_at_clk_int it is 0; in both, bits 1..7 of p1ie and every other
\* register, p1ifg included, are as at the call.
C11_EnableDisableFrame ==
  /\ Returned("enable_at_clk_int", enable_at_clk_int) => Bit(regs.p1ie, 0) = 1
  /\ Returned("disable_at_clk_int", disable_at_clk_int) => Bit(regs.p1ie, 0) = 0
  /\ op \in {"enable_at_clk_int", "disable_at_clk_int"} =>
       /\ SameOutside(regs.p1ie, pre.p1ie, {0})
       /\ OthersUnchanged({"p1ie"})

\* C11 witness: enable_at_clk_int has returned from a block where the
\* clock interrupt was disabled, interrupts of other pins were enabled and
\* flags were set.
C11_Witness ==
  /\ Returned("enable_at_clk_int", enable_at_clk_int)
  /\ pre.p1ie = 90 /\ regs.p1ie = 91 /\ pre.p1ifg = 255

\* C13: is_set and is_unset change no register; is_set returns true exactly
\* when bit loc of p1in is 1, and is_unset returns the negation of what
\* is_set returns on the same block.
C13_ReadsArePure ==
  op \in {"is_set", "is_unset"} =>
    /\ regs = pre
    /\ (op = "is_set" /\ ret # -1) => (ret = 1 <=> Bit(regs.p1in, loc) = 1)
    /\ (op = "is_unset" /\ ret # -1) => ret = 1 - RetVal(Pin_is_set(loc, regs))

\* C13 witness: is_unset has returned false for pin 7, whose input bit is
\* 1 while its output bit is 0.
C13_Witness ==
  /\ op = "is_unset" /\ ret = 0 /\ loc = 7
  /\ regs.p1in = 165 /\ regs.p1out = 90

\* C14 (as claimed): with the direction set to output, set followed by
\* is_set returns true and unset followed by is_unset returns true.
C14_DriveThenReadTrue ==
  (op \in {"set_is_set", "unset_is_unset"} /\ ret # -1) => ret = 1

\* C14 (amended): with the direction set to output, set leaves bit loc of
\* p1out 1 and unset leaves it 0, and neither changes p1in: the following
\* is_set returns true exactly when bit loc of p1in was 1 at the call, and
\* the following is_unset exactly when it was 0.
C14_DriveThenReadInput ==
  /\ (op = "set_is_set" /\ ret # -1) =>
       /\ Bit(regs.p1dir, loc) = 1 /\ Bit(regs.p1out, loc) = 1
       /\ ret = Bit(pre.p1in, loc)
  /\ (op = "unset_is_unset" /\ ret # -1) =>
       /\ Bit(regs.p1dir, loc) = 1 /\ Bit(regs.p1out, loc) = 0
       /\ ret = 1 - Bit(pre.p1in, loc)

\* C14 witness: the clock of bus A was made an output and set, and is_set
\* returned false because the input register holds 0 for it.
C14_Witness ==
  /\ op = "set_is_set" /\ loc = at_clk /\ ret = 0
  /\ Bit(regs.p1out, at_clk) = 1 /\ Bit(regs.p1dir, at_clk) = 1
  /\ pre.p1in = 90

\* The number of bits of the byte v that are 1.
Ones(v) == Cardinality({i \in BitPos : Bit(v, i) = 1})

\* C15: the mask a Pin primitive applies for its location, any of 0..7, is
\* 1 << location: nonzero, one bit set, that of the location, and the mask
\* of no other location; the five pins have the locations 0 (at_clk),
\* 1 (xt_sense), 2 (xt_clk), 3 (xt_data), 4 (at_data), pairwise different,
\* and pairwise disjoint bitmasks.
C15_BitmaskShape ==
  (op \in DOMAIN PrimTarget /\ pc = 1) =>
    /\ log[1].arg = 2^loc /\ bitmask(loc) = log[1].arg
    /\ log[1].arg \in 1..(Byte - 1)
    /\ Ones(log[1].arg) = 1 /\ Bit(log[1].arg, loc) = 1
    /\ \A m \in BitPos \ {loc} : bitmask(m) # log[1].arg
    /\ <<at_clk, xt_sense, xt_clk, xt_data, at_data>> = <<0, 1, 2, 3, 4>>
    /\ \A f, g \in DOMAIN KeyboardPins_new :
         f # g => /\ KeyboardPins_new[f] # KeyboardPins_new[g]
                  /\ BitAnd(bitmask(KeyboardPins_new[f]), bitmask(KeyboardPins_new[g])) = 0

\* C15 witness: mk_out on location 7 has applied the mask 0x80.
C15_Witness ==
  /\ op = "mk_out" /\ pc = 1 /\ loc = 7
  /\ log[1].arg = 128 /\ pre.p1dir = 0 /\ regs.p1dir = 128

\* The bits an operation of KeyboardPins owns in p1out and p1dir.
Owned ==
  [at_idle |-> {0, 4}, at_inhibit |-> {0, 4}, at_send |-> {0, 4},
   xt_out |-> {2, 3}, xt_in |-> {2, 3}]

\* C16: at every step of at_idle, at_inhibit and at_send only bits 0 and 4
\* of p1out and p1dir differ from the call, at every step of xt_out and
\* xt_in only bits 2 and 3; p1ie, p1ies, p1ifg and p1in are unchanged.
C16_CompositeFrame ==
  op \in DOMAIN Owned =>
    /\ SameOutside(regs.p1out, pre.p1out, Owned[op])
    /\ SameOutside(regs.p1dir, pre.p1dir, Owned[op])
    /\ OthersUnchanged({"p1out", "p1dir"})

\* C16 witness: xt_in is between its two accesses, having changed bit 3 of
\* p1out, in a block where every other bit of p1dir is set.
C16_Witness ==
  /\ op = "xt_in" /\ pc = 1
  /\ pre.p1out = 0 /\ regs.p1out = 8 /\ regs.p1dir = 255

\* C18: idle accesses p1dir, p1ifg, p1ies, p1ie in this order; called with
\* the clock interrupt disabled, and with no clock edge during the call,
\* it passes no state where bit 0 of p1ie and bit 0 of p1ifg are both 1.
C18_IdleArmsLast ==
  /\ Returned("idle", idle) =>
       <<log[1].reg, log[2].reg, log[3].reg, log[4].reg>> = <<"p1dir", "p1ifg", "p1ies", "p1ie">>
  /\ (op = "idle" /\ Bit(pre.p1ie, at_clk) = 0) => ~Pending

\* C18 witness: idle has returned, armed, from a block where the flag was
\* pending and the interrupt disabled.
C18_Witness ==
  /\ Returned("idle", idle)
  /\ pre.p1ifg = 255 /\ pre.p1ie = 90 /\ Bit(regs.p1ie, at_clk) = 1

\* C12: when the handler returns without having called clear_at_clk_int,
\* the interrupt is still pending; whenever it is pending and the handler
\* is not running, the next step enters the handler, with no clock edge in
\* between.  When the handler returns having called clear_at_clk_int and
\* no edge was flagged since, the interrupt is not pending, and the handler
\* is entered only after an edge flagged since the last acknowledge.
C12_AckLifecycle ==
  [][ /\ (isr.active /\ ~isr'.active /\ ~Acks(isr.prog)) => Pending'
      /\ (isr.active /\ ~isr'.active /\ Acks(isr.prog) /\ ~edge) => ~Pending'
      /\ (~isr.active /\ Pending) => isr'.active
      /\ (~isr.active /\ isr'.active) => edge ]_vars

\* C12 witness: the handler has inhibited bus A, acknowledged and returned;
\* the interrupt is armed, no edge was flagged since, nothing is pending.
C12_Witness ==
  /\ ~isr.active /\ regs.p1dir = 17
  /\ Bit(regs.p1ie, at_clk) = 1 /\ Bit(regs.p1ifg, at_clk) = 0 /\ ~edge

\* The positions of the bits of the mask m.
MaskBits(m) == {i \in BitPos : Bit(m, i) = 1}

\* C17: when the foreground writes the result of a modify of p1out or
\* p1dir and the register, since the foreground read it, was changed by
\* the handler in bits outside the foreground's mask, the write puts every
\* such bit back to the value read before the interrupt: the handler's
\* update is lost (the block differs from the serially updated one), and
\* the operation goes on as if nothing happened.
C17_LostUpdate ==
  [][ (/\ ~isr.active /\ tmp # -1 /\ tmp' = -1
       /\ log'[Len(log')].reg \in {"p1out", "p1dir"}
       /\ ~SameOutside(tmp, regs[log'[Len(log')].reg], MaskBits(log'[Len(log')].arg)))
      => /\ SameOutside(regs'[log'[Len(log')].reg], tmp, MaskBits(log'[Len(log')].arg))
         /\ regs' # serial'
         /\ op' = op /\ pc' = pc + 1 /\ ret' = -1 ]_vars

\* C17 witness: xt_out has written p1out from a value read before the
\* handler ran at_inhibit: bit 4 of p1out, set by the handler, is 0 again,
\* and bit 0, cleared by the handler, is 1 again.
C17_Witness ==
  /\ op = "xt_out" /\ pc = 1 /\ ~isr.active
  /\ pre.p1out = 165 /\ regs.p1out = 173 /\ serial.p1out = 188
  /\ regs.p1dir = 17

\* C19: once idle has returned, in every state of every sequence of the
\* operations of KeyboardPins, bit 1 (xt_sense) and bits 5..7 of p1dir are
\* 0: the sense line and the pins of no signal are never outputs.
C19_SenseNeverOutput ==
  hist # "none" => \A i \in {xt_sense, 5, 6, 7} : Bit(regs.p1dir, i) = 0

\* C19 witness: after idle from a block with every direction bit set, bus A
\* was inhibited and bus B set to transmit: the four lines are outputs.
C19_Witness ==
  /\ hist = "other" /\ op = "none"
  /\ regs.p1dir = 29

\* C20 (as claimed): after idle and at_idle, in every state of every
\* sequence of at_idle, at_inhibit and at_send, also between their
\* accesses, the clock of bus A is not an output driven high: bit 0 of
\* p1dir and bit 0 of p1out are not both 1.
C20_ClockNeverDrivenHigh ==
  (hist = "bus_a" /\ op \in BusAOps \cup {"none"}) =>
    ~(Bit(regs.p1dir, at_clk) = 1 /\ Bit(regs.p1out, at_clk) = 1)

TypeOK ==
  /\ regs \in [RegNames -> 0..(Byte - 1)]
  /\ pc \in 0..4
  /\ loc \in BitPos
====
